---- MODULE Spec2Model ----
(***************************************************************************)
(* Livre: the histogram aggregator of livre::EventHandler                  *)
(* (EventHandler<C>::Impl::gatherHistogram and ViewHistogram), the brick   *)
(* ordering and sampling rate of RayCastRenderer::Impl, and the bounded    *)
(* cache that TextureCache instantiates.                                   *)
(*                                                                         *)
(* Areas are floats in the source.  They are modelled in fixed point, in   *)
(* units of 1e-4, so that 1.0f is AreaUnit and the tolerance 0.0001f of    *)
(* isComplete is Eps; sums of the areas used here are exact in both.       *)
(***************************************************************************)
EXTENDS Integers, Sequences, FiniteSets, TLC

VARIABLES
    histogramQueue,   \* Impl::histogramQueue, a deque of ViewHistogram, head first
    configHistogram,  \* the histogram held by Config (getHistogram/setHistogram)
    latency,          \* Config::getLatency()
    last,             \* history: the most recent gatherHistogram call and its effect
    resolved,         \* history: the newest frame id a histogram was sent for (0: none)
    pubCount,         \* history: per frame id, how often a histogram was sent (capped at 2)
    script,           \* a scripted scenario: its name and the frame ids still to deliver
    other,            \* a permutation experiment: the aggregator fed in the other order
    dropped,          \* history: the frame ids whose entry pop_back dropped from the tail
    volInfo,          \* RayCastRenderer::Impl::_volInfo: voxels.find_max() and the tree depth
    nSamplesPerRay,   \* RayCastRenderer::Impl::_nSamplesPerRay
    computedSamplesPerRay, \* RayCastRenderer::Impl::_computedSamplesPerRay
    frame,            \* history: the most recent call of the renderer and its arguments
    visibleNodes,     \* RayCastRenderer::Impl::_visibleNodes
    maxMemBytes,      \* the byte budget of the cache (LRUCache(maxMemBytes))
    entries,          \* the cache: per key, the state and reference count of its entry
    lru,              \* the keys of the entries, the least recently used first
    usedBytes,        \* the bytes used by the entries that are filled
    fills,            \* per key, the fills in flight: still wanted, or orphaned by an eviction
    cacheLast,        \* history: the most recent cache operation and its effect
    scenario,         \* history: how far the calls have followed Scenario A (-1: not)
    dataTier,         \* the Data Tier (TextureCache::Impl::_dataCache): per key, the state of its entry
    residencyTier,    \* the Residency Tier (the texture cache): per key, the state of its entry
    dataWasReady,     \* history: the keys whose Data Tier entry has been ready
    tierLast          \* history: the most recent operation on the tiers

rendererVars ==
    <<volInfo, nSamplesPerRay, computedSamplesPerRay, frame, visibleNodes>>

cacheVars == <<maxMemBytes, entries, lru, usedBytes, fills, cacheLast, scenario>>

tierVars == <<dataTier, residencyTier, dataWasReady, tierLast>>

vars == <<histogramQueue, configHistogram, latency, last, resolved, pubCount, script, other,
          dropped, rendererVars, cacheVars, tierVars>>

----------------------------------------------------------------------------
(* Bounds of the model *)

\* the free specification delivers NumFrames distinct frame ids, from 7 on
NumFrames == 3
\* latencies 0 .. MaxLatency are explored by the free specification
MaxLatency == 1
\* an entry is not merged beyond this accumulated area (fixed point)
MaxArea == 15000

(* Program constants *)

\* 1.0f of `std::abs(1.0f - area)`, in units of 1e-4
AreaUnit == 10000
\* `const float eps = 0.0001f`, in units of 1e-4
Eps == 1

FrameIds == 7 .. (6 + NumFrames)
Latencies == 0 .. MaxLatency
\* coverage areas a node may report: 0.5 and 1.0
Areas == {5000, AreaUnit}
\* the histograms a node may report (two buckets)
Histograms == {<<1, 0>>, <<0, 1>>}
\* a default-constructed Histogram: no buckets
EmptyHistogram == << >>

----------------------------------------------------------------------------
(* ViewHistogram *)

Abs(x) == IF x < 0 THEN -x ELSE x

\* ViewHistogram(histogram_, area_, id_)
ViewHistogram(histogram, area, id) ==
    [histogram |-> histogram, area |-> area, id |-> id]

\* Histogram::operator+=: bucket-wise sum
HistogramSum(a, b) ==
    IF a = EmptyHistogram THEN b
    ELSE IF b = EmptyHistogram THEN a
    ELSE [i \in 1..Len(a) |-> a[i] + b[i]]

\* ViewHistogram::operator+= (never called with itself here)
Merge(data, hist) ==
    [data EXCEPT !.histogram = HistogramSum(@, hist.histogram),
                 !.area = @ + hist.area]

\* ViewHistogram::isComplete
isComplete(hist) == Abs(AreaUnit - hist.area) <= Eps

----------------------------------------------------------------------------
(* gatherHistogram, step by step *)

\* a slip: the frame just below the tail is let through
isVeryOldOffByOne(queue, currentId) ==
    /\ queue # << >>
    /\ currentId + 1 < queue[Len(queue)].id

\* `if (!histogramQueue.empty() && currentId < histogramQueue.back().id) return;`
isVeryOld(queue, currentId) ==
    /\ queue # << >>
    /\ currentId < queue[Len(queue)].id

\* a slip: the new element goes behind *it instead of before it
EmplaceBehind(queue, i, hist) ==
    SubSeq(queue, 1, i) \o <<hist>> \o SubSeq(queue, i + 1, Len(queue))

\* `histogramQueue.emplace(it, viewHistogram)` with it at index i (1-based)
Emplace(queue, i, hist) ==
    SubSeq(queue, 1, i - 1) \o <<hist>> \o SubSeq(queue, i, Len(queue))

\* `histogramQueue.erase(it, histogramQueue.end())` with it at index i
EraseToEnd(queue, i) == SubSeq(queue, 1, i - 1)

\* The element `data` names after the emplace at index i.  `data` was bound
\* to *it before the insertion.  An insertion at the head keeps references
\* valid, so data is the old element, now at i + 1.  An insertion in the
\* middle invalidates it: the element found there is the old one or the new
\* one, depending on which side the deque shifts (refNew).
DataIndexAfterEmplace(i, refNew) ==
    IF i > 1 /\ refNew THEN i ELSE i + 1

\* lines 820-826: send a complete queue entry unless Config holds it already
SendData(cfg, data) ==
    IF cfg # data.histogram
    THEN [histogram |-> data.histogram,
          sent |-> <<[id |-> data.id, histogram |-> data.histogram]>>]
    ELSE [histogram |-> cfg, sent |-> << >>]

\* a slip: the comparison with Config's histogram is dropped
SendViewAlways(cfg, hist) ==
    [histogram |-> hist.histogram,
     sent |-> <<[id |-> hist.id, histogram |-> hist.histogram]>>]

\* lines 844-850: send the contribution itself unless Config holds it already
SendView(cfg, hist) ==
    IF cfg = hist.histogram
    THEN [histogram |-> cfg, sent |-> << >>]
    ELSE [histogram |-> hist.histogram,
          sent |-> <<[id |-> hist.id, histogram |-> hist.histogram]>>]

\* a slip: the queue may hold one entry more before its tail is dropped
PopOldestLate(queue, lat) ==
    IF Len(queue) > lat + 2 THEN SubSeq(queue, 1, Len(queue) - 1) ELSE queue

\* `if (histogramQueue.size() > config.getLatency() + 1) histogramQueue.pop_back();`
PopOldest(queue, lat) ==
    IF Len(queue) > lat + 1 THEN SubSeq(queue, 1, Len(queue) - 1) ELSE queue

\* The for loop of lines 802-834, from index i.  Result: the queue and the
\* Config histogram after the loop, what was sent, whether the function
\* returned from inside the loop, and the loop's dataMerged.
RECURSIVE Scan(_, _, _, _, _)
Scan(queue, cfg, i, hist, refNew) ==
    IF i > Len(queue)
    THEN [queue |-> queue, histogram |-> cfg, sent |-> << >>,
          returned |-> FALSE, dataMerged |-> FALSE]
    ELSE
      LET same     == hist.id = queue[i].id
          newer    == hist.id > queue[i].id
          q1       == IF same THEN [queue EXCEPT ![i] = Merge(@, hist)]
                      ELSE IF newer THEN Emplace(queue, i, hist)
                      ELSE queue
          data     == IF newer THEN q1[DataIndexAfterEmplace(i, refNew)] ELSE q1[i]
          out      == SendData(cfg, data)
      IN  IF isComplete(data)
          THEN [queue |-> EraseToEnd(q1, i), histogram |-> out.histogram,
                sent |-> out.sent, returned |-> TRUE, dataMerged |-> same \/ newer]
          ELSE IF same \/ newer
          THEN [queue |-> q1, histogram |-> cfg, sent |-> << >>,
                returned |-> FALSE, dataMerged |-> TRUE]
          ELSE Scan(q1, cfg, i + 1, hist, refNew)

\* lines 836-854: what follows the loop when it did not return
AfterScan(queue, cfg, lat, hist) ==
    IF queue = << >> /\ ~isComplete(hist)
    THEN [queue |-> <<hist>>, histogram |-> cfg, sent |-> << >>, popped |-> {}]
    ELSE IF isComplete(hist)
    THEN LET out == SendView(cfg, hist)
         IN  [queue |-> queue, histogram |-> out.histogram, sent |-> out.sent,
              popped |-> {}]
    ELSE LET kept == PopOldest(queue, lat)
         IN  [queue |-> kept, histogram |-> cfg, sent |-> << >>,
              popped |-> {queue[i].id : i \in (Len(kept) + 1)..Len(queue)}]

\* EventHandler<C>::Impl::gatherHistogram(histogram, area, currentId).
\* `taken` tells whether the contribution was merged into the queue entry of
\* its frame, inserted as that entry, or reached the code after the loop; it
\* is not when the call returns early or from the loop at another entry.
gatherHistogram(queue, cfg, lat, histogram, area, currentId, refNew) ==
    IF isVeryOld(queue, currentId)
    THEN [queue |-> queue, histogram |-> cfg, sent |-> << >>, skipped |-> TRUE,
          taken |-> FALSE, popped |-> {}]
    ELSE
      LET viewHistogram == ViewHistogram(histogram, area, currentId)
          loop == Scan(queue, cfg, 1, viewHistogram, refNew)
          rest == AfterScan(loop.queue, loop.histogram, lat, viewHistogram)
      IN  IF loop.returned
          THEN [queue |-> loop.queue, histogram |-> loop.histogram,
                sent |-> loop.sent, skipped |-> FALSE, taken |-> loop.dataMerged,
                popped |-> {}]
          ELSE [queue |-> rest.queue, histogram |-> rest.histogram,
                sent |-> rest.sent, skipped |-> FALSE, taken |-> TRUE,
                popped |-> rest.popped]

----------------------------------------------------------------------------
(* History of a call *)

QueueIds(queue) == {queue[i].id : i \in 1..Len(queue)}

\* the queue entry of frame id, as a sequence of zero or one element
EntryOf(queue, id) == SelectSeq(queue, LAMBDA e : e.id = id)

\* area and histogram gathered for frame id once the contribution is added
\* to what the queue holds for it
AccArea(queue, id, area) ==
    IF EntryOf(queue, id) = << >> THEN area ELSE EntryOf(queue, id)[1].area + area

AccHistogram(queue, id, histogram) ==
    IF EntryOf(queue, id) = << >> THEN histogram
    ELSE HistogramSum(EntryOf(queue, id)[1].histogram, histogram)

MaxOf(S) == CHOOSE x \in S : \A y \in S : y <= x

NoCall ==
    [id |-> 0, area |-> 0, histogram |-> EmptyHistogram, skipped |-> FALSE,
     taken |-> FALSE,
     sent |-> << >>, accArea |-> 0, accHistogram |-> EmptyHistogram,
     before |-> EmptyHistogram, unchanged |-> TRUE,
     olderThanOldest |-> FALSE, olderThanNewest |-> FALSE]

CallRecord(queue, cfg, newest, histogram, area, id, res) ==
    [id |-> id, area |-> area, histogram |-> histogram,
     skipped |-> res.skipped,
     taken |-> res.taken,
     sent |-> res.sent,
     accArea |-> AccArea(queue, id, area),
     accHistogram |-> AccHistogram(queue, id, histogram),
     before |-> cfg,
     unchanged |-> (res.queue = queue /\ res.histogram = cfg),
     olderThanOldest |-> (queue # << >> /\ \A f \in QueueIds(queue) : id < f),
     olderThanNewest |->
        id < MaxOf(QueueIds(queue) \cup {newest})]

Resolved(newest, sent) ==
    IF sent = << >> THEN newest ELSE MaxOf({newest, sent[1].id})

Counted(counts, sent) ==
    IF sent = << >> THEN counts
    ELSE [counts EXCEPT ![sent[1].id] = IF @ < 2 THEN @ + 1 ELSE @]

----------------------------------------------------------------------------
(* The aggregator receiving HISTOGRAM_DATA events *)

NoScript == [order |-> "free", todo |-> << >>]

\* no renderer call has been made; the aggregator does not touch the renderer
NoFrame == [op |-> "none", bricks |-> << >>, after |-> << >>, frustum |-> << >>,
            result |-> << >>, thrown |-> "none", shift |-> 0, valid |-> {}]

NoRenderer ==
    /\ volInfo = [voxels |-> 0, depth |-> 0]
    /\ nSamplesPerRay = 0
    /\ computedSamplesPerRay = 0
    /\ frame = NoFrame
    /\ visibleNodes = << >>

\* the cache holds entries for the keys 1 .. NumKeys
NumKeys == 3

Keys == 1 .. NumKeys

\* no entry for a key, no fill in flight for a key, no cache operation yet
NoEntry == [state |-> "absent", refs |-> 0]

NoFill == [wanted |-> 0, orphaned |-> 0]

NoCacheCall ==
    [op |-> "none", evicted |-> {}, pinnedEvicted |-> FALSE,
     youngerEvicted |-> FALSE, pendingEvicted |-> FALSE, fillsLost |-> FALSE,
     installed |-> FALSE, grown |-> FALSE]

\* an empty cache; the aggregator and the renderer model do not touch it
NoCache ==
    /\ maxMemBytes = 0
    /\ entries = [k \in Keys |-> NoEntry]
    /\ lru = << >>
    /\ usedBytes = 0
    /\ fills = [k \in Keys |-> NoFill]
    /\ cacheLast = NoCacheCall
    /\ scenario = -1

\* both tiers empty
NoTiers ==
    /\ dataTier = [k \in Keys |-> "absent"]
    /\ residencyTier = [k \in Keys |-> "absent"]
    /\ dataWasReady = {}
    /\ tierLast = [op |-> "none", key |-> 1]

Init ==
    /\ histogramQueue = << >>
    /\ configHistogram = EmptyHistogram
    /\ latency \in Latencies
    /\ last = NoCall
    /\ resolved = 0
    /\ pubCount = [f \in FrameIds |-> 0]
    /\ script = NoScript
    /\ other = << >>
    /\ dropped = {}
    /\ NoRenderer
    /\ NoCache
    /\ NoTiers

\* handleEvent(HISTOGRAM_DATA): gatherHistogram(histogram, area, id)
Gather(histogram, area, id, refNew, counting) ==
    LET res == gatherHistogram(histogramQueue, configHistogram, latency,
                               histogram, area, id, refNew)
    IN  /\ other = << >>
        /\ AccArea(histogramQueue, id, area) <= MaxArea
        /\ histogramQueue' = res.queue
        /\ configHistogram' = res.histogram
        /\ last' = CallRecord(histogramQueue, configHistogram, resolved,
                              histogram, area, id, res)
        /\ resolved' = Resolved(resolved, res.sent)
        /\ pubCount' = IF counting THEN Counted(pubCount, res.sent) ELSE pubCount
        /\ dropped' = IF counting THEN dropped \cup res.popped ELSE dropped
        /\ UNCHANGED <<latency, other, rendererVars, cacheVars, tierVars>>

GatherHistogram ==
    \E histogram \in Histograms, area \in Areas, id \in FrameIds, refNew \in BOOLEAN :
        /\ Gather(histogram, area, id, refNew, FALSE)
        /\ UNCHANGED script

Next == GatherHistogram

Spec == Init /\ [][Next]_vars

----------------------------------------------------------------------------
(* The same aggregator, counting what is sent per frame id *)

GatherCounted ==
    \E histogram \in Histograms, area \in Areas, id \in FrameIds, refNew \in BOOLEAN :
        /\ Gather(histogram, area, id, refNew, TRUE)
        /\ UNCHANGED script

NextPub == GatherCounted

SpecPub == Init /\ [][NextPub]_vars

----------------------------------------------------------------------------
(* Scripted arrivals: with latency 2 and an empty queue, five frame ids are *)
(* delivered in a fixed order, one contribution each, none of them complete *)

Scripts ==
    { [order |-> "descending", todo |-> <<10, 9, 8, 7, 11>>],
      [order |-> "descending", todo |-> <<10, 9, 8, 7, 6>>],
      [order |-> "ascending",  todo |-> <<7, 8, 9, 10, 11>>] }

\* areas of which a single contribution is not complete: 0.25, 0.5, 0.6
PartialAreas ==
    {a \in {2500, 5000, 6000} : ~isComplete(ViewHistogram(EmptyHistogram, a, 0))}

InitScript ==
    /\ histogramQueue = << >>
    /\ configHistogram = EmptyHistogram
    /\ latency = 2
    /\ last = NoCall
    /\ resolved = 0
    /\ pubCount = [f \in FrameIds |-> 0]
    /\ script \in Scripts
    /\ other = << >>
    /\ dropped = {}
    /\ NoRenderer
    /\ NoCache
    /\ NoTiers

GatherScripted ==
    /\ script.todo # << >>
    /\ \E histogram \in Histograms, area \in PartialAreas, refNew \in BOOLEAN :
          Gather(histogram, area, Head(script.todo), refNew, FALSE)
    /\ script' = [script EXCEPT !.todo = Tail(@)]

NextScript == GatherScripted

SpecScript == InitScript /\ [][NextScript]_vars

----------------------------------------------------------------------------
(* Permutation experiment: from a state the aggregator has reached, the     *)
(* same two partial contributions for one frame id are delivered in both    *)
(* orders, to the aggregator and to a copy of it.  The contributions are    *)
(* partial: none is complete alone, and none completes the frame when it is *)
(* the first to be delivered.                                               *)

Contributions == [histogram : Histograms, area : Areas]

\* gatherHistogram for each contribution of `todo` in turn, for frame id.
\* doneAt is the number of contributions delivered when the area gathered
\* for the frame first lay within the completeness window (0: never).
RECURSIVE RunOrder(_, _, _, _, _, _, _)
RunOrder(queue, cfg, lat, id, todo, refNew, k) ==
    IF todo = << >>
    THEN [queue |-> queue, histogram |-> cfg, doneAt |-> 0]
    ELSE
      LET c    == Head(todo)
          res  == gatherHistogram(queue, cfg, lat, c.histogram, c.area, id, refNew)
          done == /\ res.taken
                  /\ isComplete(ViewHistogram(c.histogram,
                                              AccArea(queue, id, c.area), id))
          rest == RunOrder(res.queue, res.histogram, lat, id, Tail(todo), refNew, k + 1)
      IN  IF done THEN [rest EXCEPT !.doneAt = k] ELSE rest

Partial(queue, id, c) ==
    /\ ~isComplete(ViewHistogram(c.histogram, c.area, id))
    /\ ~isComplete(ViewHistogram(c.histogram, AccArea(queue, id, c.area), id))

Permute ==
    /\ other = << >>
    /\ \E id \in FrameIds, c1 \in Contributions, c2 \in Contributions,
          refNew \in BOOLEAN :
          LET a == RunOrder(histogramQueue, configHistogram, latency, id,
                            <<c1, c2>>, refNew, 1)
              b == RunOrder(histogramQueue, configHistogram, latency, id,
                            <<c2, c1>>, refNew, 1)
          IN  /\ Partial(histogramQueue, id, c1)
              /\ Partial(histogramQueue, id, c2)
              /\ histogramQueue' = a.queue
              /\ configHistogram' = a.histogram
              /\ other' = <<[id |-> id, first |-> c1, second |-> c2,
                             doneAt |-> a.doneAt,
                             otherQueue |-> b.queue,
                             otherHistogram |-> b.histogram,
                             otherDoneAt |-> b.doneAt]>>
    /\ last' = NoCall
    /\ UNCHANGED <<latency, resolved, pubCount, script, dropped, rendererVars,
                   cacheVars, tierVars>>

NextPerm == GatherHistogram \/ Permute

SpecPerm == Init /\ [][NextPerm]_vars

----------------------------------------------------------------------------
(* RayCastRenderer::Impl: ordering of the render bricks and sampling rate   *)

\* node ids 1 .. NumNodes exist in the data source
NumNodes == 3
\* the tree of the volume has depth 1 .. MaxDepth
MaxDepth == 3

\* `const uint32_t maxSamplesPerRay = 32;`
maxSamplesPerRay == 32
\* `const uint32_t minSamplesPerRay = 512;`
minSamplesPerRay == 512

Nodes == 1 .. NumNodes

\* NodeIds: the lists of distinct node ids, the empty list among them
BrickLists ==
    UNION {{l \in [1..n -> Nodes] : \A i, j \in 1..n : i # j => l[i] # l[j]} :
              n \in 0..NumNodes}

\* _dataSource.getNode(rb).getWorldBox().getCenter(): the nodes lie in two
\* rows, so that several of them are at the same distance of a viewpoint
Center(rb) == <<rb - 2, rb % 2>>

\* _dataSource.getNode(rb).getRefLevel(), a level of a tree of that depth
RefLevel(rb, depth) == (rb - 1) % depth

\* frustum.getMVMatrix(), here the translations by these vectors
Frustums == {<<0, 0>>, <<-1, 0>>, <<1, -1>>}

\* _frustum.getMVMatrix() * center
Transform(frustum, center) == <<center[1] + frustum[1], center[2] + frustum[2]>>

\* the square of Vector::length(); lengths compare as their squares do
LengthSq(v) == v[1] * v[1] + v[2] * v[2]

Distance(rb, frustum) == LengthSq(Transform(frustum, Center(rb)))

\* a slip: the farthest brick first
DistanceGreater(rb1, rb2, frustum) ==
    Distance(rb1, frustum) > Distance(rb2, frustum)

\* DistanceOperator::operator()(rb1, rb2): `return distance1 < distance2;`
DistanceOperator(rb1, rb2, frustum) ==
    Distance(rb1, frustum) < Distance(rb2, frustum)

\* the rearrangements of a list
Rearrangements(rbs) ==
    LET n == Len(rbs)
        perms == {p \in [1..n -> 1..n] : \A i, j \in 1..n : i # j => p[i] # p[j]}
    IN  {[i \in 1..n |-> rbs[p[i]]] : p \in perms}

\* std::sort(rbs.begin(), rbs.end(), distanceOp): the elements are
\* rearranged so that none is followed by one that compares less; in which
\* order it leaves elements that compare equal is unspecified, so that every
\* such rearrangement is an outcome
StdSort(rbs, frustum) ==
    {r \in Rearrangements(rbs) :
        \A i, j \in 1..Len(r) : i < j => ~DistanceOperator(r[j], r[i], frustum)}

\* a slip: the level of the last brick of the list
RECURSIVE LastLOD(_, _, _)
LastLOD(renderBricks, depth, maxLOD) ==
    IF renderBricks = << >> THEN maxLOD
    ELSE LastLOD(Tail(renderBricks), depth, RefLevel(Head(renderBricks), depth))

\* lines 219-226: `uint32_t maxLOD = 0; for (rb : renderBricks) ...`
RECURSIVE MaxLOD(_, _, _)
MaxLOD(renderBricks, depth, maxLOD) ==
    IF renderBricks = << >> THEN maxLOD
    ELSE LET level == RefLevel(Head(renderBricks), depth)
         IN  MaxLOD(Tail(renderBricks), depth,
                    IF level > maxLOD THEN level ELSE maxLOD)

\* a slip: the level of the brick counted from 1, one more is taken off
ShiftAmountFromOne(depth, maxLOD) ==
    LET d == depth - maxLOD - 2
    IN  IF d >= 0 THEN d ELSE 2147483647 + (d + 1)

\* `_volInfo.rootNode.getDepth() - maxLOD - 1`, in unsigned 32 bit
\* arithmetic.  A negative difference d wraps to 2^32 + d, which is beyond
\* the integers of TLC: it is represented by 2^31 + d, also far above 31.
ShiftAmount(depth, maxLOD) ==
    LET d == depth - maxLOD - 1
    IN  IF d >= 0 THEN d ELSE 2147483647 + (d + 1)

\* `1u << n`: undefined for n >= 32, where any power of two may come out
\* (2^31, beyond the integers of TLC, gives the sample count that 2^30 gives)
ShiftLeftOne(n) == IF n < 32 THEN {2 ^ n} ELSE {2 ^ k : k \in 0..30}

\* a slip: std::min for std::max
SamplesAtMost(maxVoxelDim, divisor) ==
    IF 512 * divisor < maxVoxelDim THEN 512 ELSE maxVoxelDim \div divisor

\* `std::max(maxVoxelDim / (float)divisor, (float)minSamplesPerRay)` stored
\* in a uint32_t: the quotient by a power of two is exact in float, std::max
\* returns its second argument when the first is less, and the conversion
\* drops the fraction
SamplesAtLeast(maxVoxelDim, divisor) ==
    IF maxVoxelDim < minSamplesPerRay * divisor
    THEN minSamplesPerRay
    ELSE maxVoxelDim \div divisor

\* getVRParameters().getSamplesPerRay(): 0 asks for the automatic rate
SamplesPerRaySettings == {0, 64}

\* _dataSource.getVolumeInfo().dataType as onFrameStart reads it from the
\* data source; of the eight data types these are explored
DataTypes == {"DT_UINT16", "DT_FLOAT", "DT_UNDEFINED"}

\* the switch of lines 239-279: the data type of the shader, or the
\* exception thrown
ShaderDataType(dataType) ==
    CASE dataType \in {"DT_UINT8", "DT_UINT16", "DT_UINT32"} -> "SH_UINT"
      [] dataType = "DT_FLOAT" -> "SH_FLOAT"
      [] dataType \in {"DT_INT8", "DT_INT16", "DT_INT32"} -> "SH_INT"
      [] OTHER -> "Unsupported type in the shader."

Thrown(shaderDataType) ==
    IF shaderDataType \in {"SH_UINT", "SH_INT", "SH_FLOAT"} THEN "none"
    ELSE shaderDataType

\* a slip: the sampling rate is computed whatever the setting
AutomaticAlways(samplesPerRay) == TRUE

\* `if (_nSamplesPerRay == 0) // Find sampling rate`
Automatic(samplesPerRay) == samplesPerRay = 0

\* _dataSource.getVolumeInfo(): the largest voxel dimension and the depth
VolumeInfos == [voxels : {1024, 1025, 4096}, depth : 1..MaxDepth]

\* Impl::Impl(dataSource, textureCache, samplesPerRay)
InitRender ==
    /\ histogramQueue = << >>
    /\ configHistogram = EmptyHistogram
    /\ latency = 0
    /\ last = NoCall
    /\ resolved = 0
    /\ pubCount = [f \in FrameIds |-> 0]
    /\ script = NoScript
    /\ other = << >>
    /\ dropped = {}
    /\ volInfo \in VolumeInfos
    /\ \E samplesPerRay \in SamplesPerRaySettings :
          /\ nSamplesPerRay = samplesPerRay
          /\ computedSamplesPerRay = samplesPerRay
    /\ frame = NoFrame
    /\ visibleNodes = << >>
    /\ NoCache
    /\ NoTiers

aggregatorVars ==
    <<histogramQueue, configHistogram, latency, last, resolved, pubCount,
      script, other, dropped>>

\* Impl::order(bricks, frustum)
Order ==
    \E bricks \in BrickLists, frustum \in Frustums :
        \E rbs \in StdSort(bricks, frustum) :
            /\ frame' = [op |-> "order", bricks |-> bricks, after |-> bricks,
                         frustum |-> frustum, result |-> rbs,
                         thrown |-> "none", shift |-> 0, valid |-> {}]
            /\ UNCHANGED <<volInfo, nSamplesPerRay, computedSamplesPerRay,
                           visibleNodes, aggregatorVars, cacheVars, tierVars>>

\* Impl::update(frameData)
Update ==
    \E samplesPerRay \in SamplesPerRaySettings :
        /\ nSamplesPerRay' = samplesPerRay
        /\ computedSamplesPerRay' = samplesPerRay
        /\ frame' = [NoFrame EXCEPT !.op = "update"]
        /\ UNCHANGED <<volInfo, visibleNodes, aggregatorVars, cacheVars, tierVars>>

\* Impl::onFrameStart(frustum, planes, renderBricks), lines 214-279: the
\* sampling rate, then the switch on the data type, which throws.  The
\* frame records the shift amount that was evaluated (0 when none was).
OnFrameStart ==
    \E renderBricks \in BrickLists, dataType \in DataTypes :
        LET maxLOD == MaxLOD(renderBricks, volInfo.depth, 0)
            shift  == ShiftAmount(volInfo.depth, maxLOD)
        IN  /\ IF Automatic(nSamplesPerRay)
               THEN \E divisor \in ShiftLeftOne(shift) :
                        computedSamplesPerRay' =
                            SamplesAtLeast(volInfo.voxels, divisor)
               ELSE UNCHANGED computedSamplesPerRay
            /\ frame' = [NoFrame EXCEPT
                            !.op = "onFrameStart",
                            !.bricks = renderBricks,
                            !.thrown = Thrown(ShaderDataType(dataType)),
                            !.shift = IF Automatic(nSamplesPerRay) THEN shift ELSE 0]
            /\ UNCHANGED <<volInfo, nSamplesPerRay, visibleNodes, aggregatorVars,
                           cacheVars, tierVars>>

NextRender == Order \/ Update \/ OnFrameStart

SpecRender == InitRender /\ [][NextRender]_vars

----------------------------------------------------------------------------
(* The renderer drawing the bricks of a frame *)

\* a slip: the brick is taken as visible whatever its texture
RenderBrickAlways(rb, valid, visible) == Append(visible, rb)

\* Impl::renderBrick(rb, index, posVBO): returns at a texture whose id is
\* INVALID_TEXTURE_ID, else draws the brick and appends it to _visibleNodes.
\* `valid` holds the bricks whose texture object in the cache has a texture.
RenderBrick(rb, valid, visible) ==
    IF rb \notin valid THEN visible ELSE Append(visible, rb)

\* the loop of onFrameRender, lines 474-475
RECURSIVE RenderBricks(_, _, _)
RenderBricks(bricks, valid, visible) ==
    IF bricks = << >> THEN visible
    ELSE RenderBricks(Tail(bricks), valid,
                      RenderBrick(Head(bricks), valid, visible))

\* Impl::onFrameRender(bricks): _visibleNodes.clear(), then every brick
OnFrameRender ==
    \E bricks \in BrickLists :
        \E valid \in SUBSET {bricks[i] : i \in 1..Len(bricks)} :
            /\ visibleNodes' = RenderBricks(bricks, valid, << >>)
            /\ frame' = [NoFrame EXCEPT !.op = "onFrameRender",
                                          !.bricks = bricks, !.valid = valid]
            /\ UNCHANGED <<volInfo, nSamplesPerRay, computedSamplesPerRay,
                           aggregatorVars, cacheVars, tierVars>>

NextVisible == OnFrameRender

SpecVisible == InitRender /\ [][NextVisible]_vars

----------------------------------------------------------------------------
(* The bounded cache behind TextureCache (LRUCache): get, pin, unpin, the   *)
(* completion of an asynchronous fill and the eviction pass.  Fills succeed.*)

\* the fills that may be in flight at a time, whatever their keys
MaxFills == 2
\* the references that may be held at a time, whatever their entries
MaxPins == 1

\* the size in bytes of an entry once it is filled
EntrySize == 40

\* TextureCache::TextureCache(dataCache, maxMemBytes, ...): LRUCache(maxMemBytes)
Budgets == {60, 100}

\* TextureCache::_generate(cacheId): a new object for the key, not yet
\* filled and referenced by nobody
Generate(cacheId) == [state |-> "pending", refs |-> 0]

Present(ents, k) == ents[k].state # "absent"

PresentKeys(ents) == {k \in Keys : Present(ents, k)}

\* the recency list without key k
Remove(order, k) == SelectSeq(order, LAMBDA x : x # k)

\* the recency list with key k as the most recently used
MostRecent(order, k) == Append(Remove(order, k), k)

\* a slip: every entry may be evicted
EvictableAlways(entry) == TRUE

\* pinned entries are immune to eviction
Evictable(entry) == entry.refs = 0

\* a slip: the most recently used entry is evicted first
NewestFirst(ents, order) ==
    LET unpinned == SelectSeq(order, LAMBDA k : Evictable(ents[k]))
    IN  [i \in 1..Len(unpinned) |-> unpinned[Len(unpinned) + 1 - i]]

\* a slip: the pass finds nothing to evict
NoCandidates(ents, order) == << >>

\* the entries that may be evicted, the least recently used first
Candidates(ents, order) == SelectSeq(order, LAMBDA k : Evictable(ents[k]))

\* a slip: the fill of an evicted pending entry is cancelled
CancelFill(inflight, k) == [inflight EXCEPT ![k].wanted = @ - 1]

\* the fill of an evicted pending entry goes on, no longer wanted
Orphan(inflight, k) ==
    [inflight EXCEPT ![k] = [wanted |-> @.wanted - 1, orphaned |-> @.orphaned + 1]]

\* The eviction pass: while the used bytes exceed the budget, the least
\* recently used entry that is not pinned is evicted.  log lists the evicted
\* keys in turn, with the reference count the entry had and whether an
\* unpinned entry was used less recently.
RECURSIVE Evict(_, _, _, _, _, _)
Evict(ents, order, inflight, used, budget, log) ==
    IF used <= budget \/ Candidates(ents, order) = << >>
    THEN [entries |-> ents, lru |-> order, fills |-> inflight,
          usedBytes |-> used, log |-> log]
    ELSE
      LET k == Head(Candidates(ents, order))
          older == {order[i] : i \in {j \in 1..Len(order) :
                                        \A h \in 1..j : order[h] # k}}
      IN  Evict([ents EXCEPT ![k] = NoEntry],
                Remove(order, k),
                IF ents[k].state = "pending" THEN Orphan(inflight, k) ELSE inflight,
                IF ents[k].state = "ready" THEN used - EntrySize ELSE used,
                budget,
                Append(log, [key |-> k, refs |-> ents[k].refs,
                             pending |-> ents[k].state = "pending",
                             oldest |-> \A o \in older : ents[o].refs > 0]))

FillsInFlight(inflight, k) == inflight[k].wanted + inflight[k].orphaned

RECURSIVE SumOver(_, _)
SumOver(f, S) ==
    IF S = {} THEN 0
    ELSE LET k == CHOOSE x \in S : TRUE IN f[k] + SumOver(f, S \ {k})

AllFillsInFlight(inflight) ==
    SumOver([k \in Keys |-> FillsInFlight(inflight, k)], Keys)

AllReferences(ents) == SumOver([k \in Keys |-> ents[k].refs], Keys)

\* What the last operation did, from the entries and used bytes before it,
\* the fills in flight before its eviction pass, and the pass it ran.  op is "pass" when an eviction pass ran (a wanted fill completed, or
\* the pass of a frame), "discard" when an orphaned fill completed, "call"
\* for get, pin and unpin.
CacheRecord(op, k, ents, inflight, used, pass) ==
    [op |-> op,
     evicted |-> {pass.log[i].key : i \in 1..Len(pass.log)},
     pinnedEvicted |-> \E i \in 1..Len(pass.log) : pass.log[i].refs > 0,
     youngerEvicted |-> \E i \in 1..Len(pass.log) : ~pass.log[i].oldest,
     pendingEvicted |-> \E i \in 1..Len(pass.log) : pass.log[i].pending,
     fillsLost |-> \E j \in Keys :
                      FillsInFlight(pass.fills, j) < FillsInFlight(inflight, j),
     installed |-> pass.entries[k].state = "ready" /\ ents[k].state # "ready",
     grown |-> pass.usedBytes > used]

\* the state as a pass that evicts nothing leaves it
NoPass(ents, order, inflight, used) ==
    [entries |-> ents, lru |-> order, fills |-> inflight, usedBytes |-> used,
     log |-> << >>]

\* Scenario A: with a budget of 100 bytes, keys 1, 2, 3 are requested once
\* each in that order and never pinned.  scenario counts the keys requested
\* while the calls follow the scenario, and is -1 when they do not.
ScenarioStep(stage, budget, op, k, hit) ==
    IF stage = -1 \/ budget # 100 THEN -1
    ELSE IF op = "get" THEN (IF ~hit /\ k = stage + 1 /\ k <= 3 THEN k ELSE -1)
    ELSE IF op = "pin" THEN -1
    ELSE stage

InitCache ==
    /\ histogramQueue = << >>
    /\ configHistogram = EmptyHistogram
    /\ latency = 0
    /\ last = NoCall
    /\ resolved = 0
    /\ pubCount = [f \in FrameIds |-> 0]
    /\ script = NoScript
    /\ other = << >>
    /\ dropped = {}
    /\ NoRenderer
    /\ maxMemBytes \in Budgets
    /\ entries = [k \in Keys |-> NoEntry]
    /\ lru = << >>
    /\ usedBytes = 0
    /\ fills = [k \in Keys |-> NoFill]
    /\ cacheLast = NoCacheCall
    /\ scenario = 0
    /\ NoTiers

\* get(id): the entry if there is one, now the most recently used; otherwise
\* a pending entry is created and an asynchronous fill is dispatched
Get ==
    \E id \in Keys :
        LET hit == Present(entries, id)
            ents == IF hit THEN entries ELSE [entries EXCEPT ![id] = Generate(id)]
            inflight == IF hit THEN fills ELSE [fills EXCEPT ![id].wanted = @ + 1]
        IN  /\ hit \/ AllFillsInFlight(fills) < MaxFills
            /\ entries' = ents
            /\ lru' = MostRecent(lru, id)
            /\ fills' = inflight
            /\ cacheLast' = CacheRecord("call", id, entries, fills, usedBytes,
                                        NoPass(ents, lru, inflight, usedBytes))
            /\ scenario' = ScenarioStep(scenario, maxMemBytes, "get", id, hit)
            /\ UNCHANGED <<maxMemBytes, usedBytes, aggregatorVars, rendererVars, tierVars>>

\* pin(id): one more reference on the entry
Pin ==
    \E id \in Keys :
        /\ Present(entries, id)
        /\ AllReferences(entries) < MaxPins
        /\ entries' = [entries EXCEPT ![id].refs = @ + 1]
        /\ cacheLast' = CacheRecord("call", id, entries, fills, usedBytes,
                                    NoPass(entries, lru, fills, usedBytes))
        /\ scenario' = ScenarioStep(scenario, maxMemBytes, "pin", id, TRUE)
        /\ UNCHANGED <<maxMemBytes, lru, usedBytes, fills, aggregatorVars,
                       rendererVars, tierVars>>

\* unpin(id): one reference less on the entry
Unpin ==
    \E id \in Keys :
        /\ Present(entries, id)
        /\ entries[id].refs > 0
        /\ entries' = [entries EXCEPT ![id].refs = @ - 1]
        /\ cacheLast' = CacheRecord("call", id, entries, fills, usedBytes,
                                    NoPass(entries, lru, fills, usedBytes))
        /\ scenario' = ScenarioStep(scenario, maxMemBytes, "unpin", id, TRUE)
        /\ UNCHANGED <<maxMemBytes, lru, usedBytes, fills, aggregatorVars,
                       rendererVars, tierVars>>

\* A fill completes.  If its result is still wanted, the entry becomes
\* ready, its size is added to the used bytes and the eviction pass runs;
\* if its entry was evicted meanwhile, the result is discarded.
FillComplete ==
    \E id \in Keys, wanted \in BOOLEAN :
        LET pass ==
              IF wanted
              THEN Evict([entries EXCEPT ![id].state = "ready"], lru,
                         [fills EXCEPT ![id].wanted = @ - 1],
                         usedBytes + EntrySize, maxMemBytes, << >>)
              ELSE NoPass(entries, lru, [fills EXCEPT ![id].orphaned = @ - 1],
                          usedBytes)
        IN  /\ IF wanted THEN fills[id].wanted > 0 ELSE fills[id].orphaned > 0
            /\ entries' = pass.entries
            /\ lru' = pass.lru
            /\ fills' = pass.fills
            /\ usedBytes' = pass.usedBytes
            /\ cacheLast' = CacheRecord(IF wanted THEN "pass" ELSE "discard", id,
                                        entries,
                                        IF wanted
                                        THEN [fills EXCEPT ![id].wanted = @ - 1]
                                        ELSE [fills EXCEPT ![id].orphaned = @ - 1],
                                        usedBytes, pass)
            /\ scenario' = ScenarioStep(scenario, maxMemBytes, "fill", id, TRUE)
            /\ UNCHANGED <<maxMemBytes, aggregatorVars, rendererVars, tierVars>>

\* the eviction pass of a frame
EvictPass ==
    LET pass == Evict(entries, lru, fills, usedBytes, maxMemBytes, << >>)
    IN  /\ entries' = pass.entries
        /\ lru' = pass.lru
        /\ fills' = pass.fills
        /\ usedBytes' = pass.usedBytes
        /\ cacheLast' = CacheRecord("pass", 1, entries, fills, usedBytes, pass)
        /\ scenario' = ScenarioStep(scenario, maxMemBytes, "evict", 1, TRUE)
        /\ UNCHANGED <<maxMemBytes, aggregatorVars, rendererVars, tierVars>>

NextCache == Get \/ Pin \/ Unpin \/ FillComplete \/ EvictPass

SpecCache == InitCache /\ [][NextCache]_vars

----------------------------------------------------------------------------
(* The two tiers: the texture cache (Residency Tier) is filled from the     *)
(* data cache it refers to (Data Tier).  Eviction is any removal of an      *)
(* entry, whatever the budget.                                               *)

\* a slip: promotion does not wait for the data entry
PromotableAlways(data, id) == TRUE

\* GPU promotion is scheduled only once the Data Tier entry is ready
Promotable(data, id) == data[id] = "ready"

\* the Data Tier's get(id): a pending entry is created on a miss
Requested(data, id) ==
    IF data[id] = "absent" THEN [data EXCEPT ![id] = "pending"] ELSE data

TierRecord(op, id) == [op |-> op, key |-> id]

InitTiers ==
    /\ histogramQueue = << >>
    /\ configHistogram = EmptyHistogram
    /\ latency = 0
    /\ last = NoCall
    /\ resolved = 0
    /\ pubCount = [f \in FrameIds |-> 0]
    /\ script = NoScript
    /\ other = << >>
    /\ dropped = {}
    /\ NoRenderer
    /\ NoCache
    /\ NoTiers

\* the Residency Tier's get(id): on a miss a pending entry is created and
\* its fill first requests the Data Tier entry of the key
ResidencyGet ==
    \E id \in Keys :
        /\ IF residencyTier[id] = "absent"
           THEN /\ residencyTier' = [residencyTier EXCEPT ![id] = "pending"]
                /\ dataTier' = Requested(dataTier, id)
                /\ tierLast' = TierRecord("miss", id)
           ELSE /\ UNCHANGED <<residencyTier, dataTier>>
                /\ tierLast' = TierRecord("hit", id)
        /\ UNCHANGED <<dataWasReady, aggregatorVars, rendererVars, cacheVars>>

\* the Data Tier's get(id), by the fill of the Residency Tier that finds its
\* data entry gone, or by another consumer
DataGet ==
    \E id \in Keys :
        /\ dataTier[id] = "absent"
        /\ dataTier' = Requested(dataTier, id)
        /\ tierLast' = TierRecord("data", id)
        /\ UNCHANGED <<residencyTier, dataWasReady, aggregatorVars,
                       rendererVars, cacheVars>>

\* a fill of the Data Tier completes on the worker pool
DataFillComplete ==
    \E id \in Keys :
        /\ dataTier[id] = "pending"
        /\ dataTier' = [dataTier EXCEPT ![id] = "ready"]
        /\ dataWasReady' = dataWasReady \cup {id}
        /\ tierLast' = TierRecord("filled", id)
        /\ UNCHANGED <<residencyTier, aggregatorVars, rendererVars, cacheVars>>

\* frame setup on the render thread: a pending Residency Tier entry whose
\* Data Tier entry is ready is promoted to a GPU resource
Promote ==
    \E id \in Keys :
        /\ residencyTier[id] = "pending"
        /\ Promotable(dataTier, id)
        /\ residencyTier' = [residencyTier EXCEPT ![id] = "ready"]
        /\ tierLast' = TierRecord("promoted", id)
        /\ UNCHANGED <<dataTier, dataWasReady, aggregatorVars, rendererVars,
                       cacheVars>>

\* an entry of either tier is evicted
TierEvict ==
    \E id \in Keys, ofData \in BOOLEAN :
        /\ IF ofData
           THEN /\ dataTier[id] # "absent"
                /\ dataTier' = [dataTier EXCEPT ![id] = "absent"]
                /\ UNCHANGED residencyTier
           ELSE /\ residencyTier[id] # "absent"
                /\ residencyTier' = [residencyTier EXCEPT ![id] = "absent"]
                /\ UNCHANGED dataTier
        /\ tierLast' = TierRecord("evicted", id)
        /\ UNCHANGED <<dataWasReady, aggregatorVars, rendererVars, cacheVars>>

NextTiers == ResidencyGet \/ DataGet \/ DataFillComplete \/ Promote \/ TierEvict

SpecTiers == InitTiers /\ [][NextTiers]_vars

----------------------------------------------------------------------------
(* Properties of the aggregator *)

Called == last.id # 0
Gathered == Called /\ ~last.skipped /\ last.taken
AccComplete == Abs(AreaUnit - last.accArea) <= Eps

\* C1: a completed histogram is sent at most once per frame id, whatever the
\* calls were; a late contribution for a frame already sent and removed from
\* the queue does not cause a second send.
PublishedOncePerFrame == \A f \in FrameIds : pubCount[f] <= 1

QueueWithinLatency == Len(histogramQueue) <= latency + 1

\* C4: the frame ids of the queue are strictly decreasing from head to tail,
\* so no two entries share a frame id and every insertion keeps the order.
QueueStrictlyDecreasing ==
    \A i \in 1..(Len(histogramQueue) - 1) :
        histogramQueue[i].id > histogramQueue[i + 1].id

\* C4 witness: the last call inserted a new entry between two queued ones
InsertedInMiddle ==
    /\ Gathered
    /\ last.accArea = last.area
    /\ \E i \in 2..(Len(histogramQueue) - 1) : histogramQueue[i].id = last.id

\* C5: when a call leaves the area gathered for its frame id f within the
\* completeness window (the contribution was taken and the sum is complete),
\* the queue afterwards holds no entry for f and none for a frame older
\* than f.
CompleteFrameRemoved ==
    (Gathered /\ AccComplete) =>
        \A i \in 1..Len(histogramQueue) : histogramQueue[i].id > last.id

\* C6: when a call brings the area gathered for its frame id within the
\* completeness window (the contribution was taken and the sum is complete),
\* Config's histogram afterwards is the bucket-wise sum of the contributions
\* gathered for that frame.
CompleteFramePublished ==
    (Gathered /\ AccComplete) => configHistogram = last.accHistogram

\* C7: a histogram is sent for the call's frame id only if the area gathered
\* for that frame, this contribution included, lies within the completeness
\* window; an entry that overshoots is not sent, whatever the last area was.
PublishedOnlyWhenComplete ==
    \A i \in 1..Len(last.sent) : last.sent[i].id = last.id => AccComplete

\* C9: a histogram is sent only if it differs from the one sent last, which
\* is the one Config holds: Config's histogram is what was sent, and is left
\* alone when nothing is sent.
SentOnlyIfChanged ==
    /\ last.sent # << >> =>
          /\ last.sent[1].histogram # last.before
          /\ configHistogram = last.sent[1].histogram
    /\ last.sent = << >> => configHistogram = last.before

\* C9 witness: a frame completed with the histogram Config already held, and
\* nothing was sent
ResendSuppressed ==
    /\ Gathered /\ AccComplete
    /\ last.accHistogram = last.before
    /\ last.sent = << >>
    /\ resolved # 0

\* the frame ids of the queue, head first
QueueIdSeq == [i \in 1..Len(histogramQueue) |-> histogramQueue[i].id]
Delivered == 5 - Len(script.todo)

\* C10 as stated: with latency 2 and an empty queue, frames 10, 9, 8, 7
\* gathered in that order are queued newest first with 7 at the tail, and the
\* fifth frame id drops the tail entry 7, leaving at most 3 entries.
DescendingQueued ==
    script.order = "descending" =>
        /\ Delivered = 4 => QueueIdSeq = <<10, 9, 8, 7>>
        /\ Delivered = 5 => (7 \notin QueueIds(histogramQueue)
                             /\ Len(histogramQueue) <= 3)

\* C10, amended: with latency 2 and an empty queue, frames 7, 8, 9 gathered in
\* ascending order are queued newest first with 7 at the tail, and gathering
\* the fourth frame id, 10, drops the tail entry 7 and leaves 3 entries; of
\* frames 10, 9, 8, 7 gathered in descending order, 9, 8 and 7 are skipped as
\* older than the tail and only frame 10 is queued.
AscendingDropsTail ==
    /\ (script.order = "ascending" /\ Delivered = 3) => QueueIdSeq = <<9, 8, 7>>
    /\ (script.order = "ascending" /\ Delivered = 4) => QueueIdSeq = <<10, 9, 8>>
    /\ (script.order = "ascending" /\ Delivered = 5) => QueueIdSeq = <<11, 10, 9>>
    /\ (script.order = "descending" /\ Delivered \in 1..4) => QueueIdSeq = <<10>>
    /\ (script.order = "descending" /\ Delivered \in 2..4) => last.skipped

\* C10 witness: the fourth ascending frame id was gathered and the tail dropped
TailDropped ==
    /\ script.order = "ascending" /\ Delivered = 4
    /\ last.id = 10 /\ ~last.skipped
    /\ Len(histogramQueue) = 3

\* C8: from the same aggregator state, a fixed set of partial contributions
\* for one frame id yields, in either order of delivery, the same merged
\* histogram for that frame, the same published histogram and completion
\* after the same number of contributions.
OrderIndependent ==
    \A i \in 1..Len(other) :
        /\ EntryOf(histogramQueue, other[i].id) = EntryOf(other[i].otherQueue, other[i].id)
        /\ configHistogram = other[i].otherHistogram
        /\ other[i].doneAt = other[i].otherDoneAt

\* C11: a frame id whose queue entry was dropped from the tail because the
\* queue held more than latency + 1 entries is abandoned for good: no later
\* call for it creates a queue entry for it or sends a histogram for it.
DroppedStaysAbandoned ==
    \A f \in dropped :
        /\ f \notin QueueIds(histogramQueue)
        /\ \A i \in 1..Len(last.sent) : last.sent[i].id # f

----------------------------------------------------------------------------
(* Properties of the renderer *)

Ordered == frame.op = "order"

Occurrences(rbs, rb) == Cardinality({i \in 1..Len(rbs) : rbs[i] = rb})

\* C12: order() returns a rearrangement of its input (every node id as often
\* as in the input) in which the distance of the brick centres, transformed
\* by the model-view matrix, never decreases; the input list is not modified.
OrderSortsByDistance ==
    Ordered =>
        /\ \A rb \in Nodes :
              Occurrences(frame.result, rb) = Occurrences(frame.bricks, rb)
        /\ Len(frame.result) = Len(frame.bricks)
        /\ \A i \in 1..(Len(frame.result) - 1) :
              Distance(frame.result[i], frame.frustum)
                  <= Distance(frame.result[i + 1], frame.frustum)
        /\ frame.after = frame.bricks

\* C12 witness: a list of three bricks that was not in order has been ordered
OrderedUnsortedList ==
    /\ Ordered
    /\ Len(frame.bricks) = 3
    /\ frame.result # frame.bricks
    /\ Distance(frame.bricks[1], frame.frustum) > Distance(frame.bricks[3], frame.frustum)

\* the list ordered by a stable sort: each brick is put behind the bricks
\* that are not farther than it
RECURSIVE StableInsert(_, _, _)
StableInsert(sorted, rb, frustum) ==
    IF sorted = << >> THEN <<rb>>
    ELSE IF Distance(rb, frustum) < Distance(Head(sorted), frustum)
    THEN <<rb>> \o sorted
    ELSE <<Head(sorted)>> \o StableInsert(Tail(sorted), rb, frustum)

RECURSIVE StableOrder(_, _)
StableOrder(rbs, frustum) ==
    IF rbs = << >> THEN << >>
    ELSE StableInsert(StableOrder(SubSeq(rbs, 1, Len(rbs) - 1), frustum),
                      rbs[Len(rbs)], frustum)

\* C13: order() is stable: bricks at the same distance keep the order they
\* have in the input, so the input determines the output.
OrderIsStable ==
    Ordered => frame.result = StableOrder(frame.bricks, frame.frustum)

AutomaticFrameStarted == frame.op = "onFrameStart" /\ nSamplesPerRay = 0

\* C14: in automatic mode the computed samples per ray after frame start do
\* not exceed the maximum constant, and the minimum is not above the maximum.
SamplesWithinMaximum ==
    AutomaticFrameStarted =>
        /\ computedSamplesPerRay <= maxSamplesPerRay
        /\ minSamplesPerRay <= maxSamplesPerRay

\* the greatest refinement level among the bricks of the frame, 0 if none
MaxLevel == MaxOf({RefLevel(frame.bricks[i], volInfo.depth) : i \in 1..Len(frame.bricks)} \cup {0})

\* C15: in automatic mode the computed samples per ray after frame start are
\* max(minimum, maxVoxelDim / 2^(treeDepth - maxLevel - 1)), the quotient
\* without its fraction as the count is an integer; never below the minimum.
SamplesAreNyquistLimited ==
    AutomaticFrameStarted =>
        LET voxelsAtLOD == volInfo.voxels \div (2 ^ (volInfo.depth - MaxLevel - 1))
        IN  /\ computedSamplesPerRay =
                  IF voxelsAtLOD > minSamplesPerRay THEN voxelsAtLOD
                  ELSE minSamplesPerRay
            /\ computedSamplesPerRay >= minSamplesPerRay

\* C15 witness: a frame whose finest level is not the last brick's, and
\* whose voxels at that level outnumber the minimum
SamplesAboveMinimum ==
    /\ AutomaticFrameStarted
    /\ computedSamplesPerRay > minSamplesPerRay
    /\ Len(frame.bricks) >= 2
    /\ MaxLevel > RefLevel(frame.bricks[Len(frame.bricks)], volInfo.depth)

----------------------------------------------------------------------------
(* Properties of the bounded cache *)

PassRan == cacheLast.op = "pass"

Settled == AllFillsInFlight(fills) = 0

\* C16: whatever the get, pin, unpin, fill completion and eviction steps, no
\* entry whose reference count is above 0 is evicted.
PinnedNeverEvicted == ~cacheLast.pinnedEvicted

\* C16 witness: a pass evicted an entry and left the least recently used
\* entry, which is pinned
EvictedPastPinned ==
    /\ PassRan
    /\ cacheLast.evicted # {}
    /\ lru # << >>
    /\ entries[Head(lru)].refs > 0

\* C17: once the fills and the eviction pass that follows have settled, the
\* used bytes are within the budget or every remaining entry is pinned; the
\* cache is not left over budget while an entry that may be evicted exists.
WithinBudgetOrAllPinned ==
    PassRan =>
        \/ usedBytes <= maxMemBytes
        \/ \A k \in PresentKeys(entries) : entries[k].refs > 0

\* C17 witness: keys whose sizes exceed the budget together were requested,
\* all fills are done, the pass evicted and left an unpinned entry
SettledWithinBudget ==
    /\ PassRan
    /\ Settled
    /\ cacheLast.evicted # {}
    /\ usedBytes <= maxMemBytes
    /\ \E k \in PresentKeys(entries) : entries[k].refs = 0

OldestUnpinnedEvicted ==
    /\ ~cacheLast.youngerEvicted
    /\ (scenario = 3 /\ ~Settled) =>
          (PresentKeys(entries) = {1, 2, 3} /\ cacheLast.evicted = {})
    /\ (scenario = 3 /\ Settled) =>
          /\ PresentKeys(entries) = {2, 3}
          /\ entries[2].state = "ready" /\ entries[3].state = "ready"
          /\ usedBytes = 80
          /\ cacheLast.installed => cacheLast.evicted = {1}

\* C19 witness: Scenario A has just ended with the eviction of key 1
ScenarioEvictedFirstKey ==
    /\ scenario = 3
    /\ Settled
    /\ cacheLast.installed
    /\ cacheLast.evicted = {1}
    /\ lru = <<2, 3>>

\* C20: the fill of an entry evicted while pending is not cancelled by the
\* eviction, which does not wait for it; when it completes its result is
\* discarded: no entry is installed and the used bytes do not grow.
OrphanedFillDiscarded ==
    /\ ~cacheLast.fillsLost
    /\ cacheLast.op = "discard" =>
          (~cacheLast.installed /\ ~cacheLast.grown /\ cacheLast.evicted = {})

\* C20 witness: a fill completed whose pending entry had been evicted, and
\* the key has no entry
FillOfEvictedEntryCompleted ==
    /\ cacheLast.op = "discard"
    /\ Settled
    /\ \E k \in Keys : ~Present(entries, k)

----------------------------------------------------------------------------
(* Properties of the two tiers *)

\* C21: no Residency Tier entry is ready for a key whose Data Tier entry has
\* never been ready, and a miss of the Residency Tier requests the Data Tier
\* entry of the key before anything else.
PromotedAfterDataReady ==
    /\ \A k \in Keys : residencyTier[k] = "ready" => k \in dataWasReady
    /\ tierLast.op = "miss" => dataTier[tierLast.key] # "absent"
    /\ tierLast.op = "promoted" => dataTier[tierLast.key] = "ready"

\* C21 witness: a key was promoted while another key, requested too, still
\* waits for its data
PromotedOneOfTwo ==
    /\ tierLast.op = "promoted"
    /\ \E k \in Keys : residencyTier[k] = "pending" /\ dataTier[k] = "pending"

----------------------------------------------------------------------------
(* Properties of the renderer's frames *)

FrameStarted == frame.op = "onFrameStart"

\* C22: an undefined or unsupported data type is a fatal error of the
\* construction of the renderer, reported once before any frame is started:
\* no frame start reports it.
TypeErrorOnlyAtSetup == FrameStarted => frame.thrown = "none"

----------------------------------------------------------------------------
(* Properties of the aggregator's queue entries *)

\* the entry of the call's frame id after the call is the sum of what the
\* queue held for the frame and the contribution
EntryIsSum(queue) ==
    EntryOf(queue, last.id) =
        <<ViewHistogram(last.accHistogram, last.accArea, last.id)>>

\* C23: when the queue holds an entry for the frame id of a call that is not
\* skipped, then after the call that entry has the bucket-wise sum of the
\* histograms and the sum of the areas, or is gone because the sum is
\* complete; every entry for a newer frame id is still queued, unchanged.
MergedIntoEntry ==
    [][(last'.id \in QueueIds(histogramQueue) /\ ~last'.skipped) =>
          /\ \/ EntryOf(histogramQueue', last'.id) =
                   <<ViewHistogram(last'.accHistogram, last'.accArea, last'.id)>>
             \/ /\ last'.id \notin QueueIds(histogramQueue')
                /\ Abs(AreaUnit - last'.accArea) <= Eps
          /\ \A i \in 1..Len(histogramQueue) :
                histogramQueue[i].id > last'.id =>
                    \E j \in 1..Len(histogramQueue') :
                        histogramQueue'[j] = histogramQueue[i]]_vars

\* C24: after every call the queue holds incomplete histograms only: no
\* entry has an area within the completeness window.
QueueHoldsIncompleteOnly ==
    \A i \in 1..Len(histogramQueue) : ~isComplete(histogramQueue[i])

\* C25: the contribution of a call that is not skipped is never lost: it is
\* merged into or inserted as the entry of its frame, or is part of a
\* complete histogram handed to the sending code; the loop does not return
\* at another entry before the contribution is placed.
ContributionNeverLost ==
    (Called /\ ~last.skipped) =>
        /\ last.taken
        /\ \/ EntryIsSum(histogramQueue)
           \/ AccComplete

\* C26: the frame ids of the histograms sent one after another increase: once
\* a histogram of frame f is sent, none is sent for a frame older than f.
PublishedInFrameOrder ==
    \A i \in 1..Len(last.sent) : last.sent[i].id >= resolved

----------------------------------------------------------------------------
(* Properties of the renderer's sampling and drawing *)

\* C27: with a configured number of samples per ray other than 0, the
\* computed number after frame start is the configured one, as the last
\* update() (or the construction) set it, whatever the bricks of the frame.
ConfiguredSamplesKept ==
    (FrameStarted /\ nSamplesPerRay # 0) =>
        computedSamplesPerRay = nSamplesPerRay

\* C27 witness: a frame of several bricks has started with 64 samples per
\* ray configured
ConfiguredFrameStarted ==
    /\ FrameStarted
    /\ nSamplesPerRay = 64
    /\ Len(frame.bricks) >= 2

Rendered == frame.op = "onFrameRender"

\* C28: after onFrameRender(bricks) the visible nodes are the bricks whose
\* texture is valid, in the order they have in bricks, and nothing else: the
\* nodes of the frame before are gone, and a brick without a valid texture
\* does not keep the bricks behind it from being drawn.
VisibleAreValidInOrder ==
    Rendered =>
        visibleNodes = SelectSeq(frame.bricks, LAMBDA rb : rb \in frame.valid)

\* C28 witness: of three bricks the second has no valid texture, and the
\* first and the third are visible
SkippedInvalidBrick ==
    /\ Rendered
    /\ Len(frame.bricks) = 3
    /\ frame.valid = {frame.bricks[1], frame.bricks[3]}
    /\ visibleNodes = <<frame.bricks[1], frame.bricks[3]>>

\* C29: the shift amount of the automatic computation, depth - maxLevel - 1
\* in unsigned 32 bit arithmetic, is within 0..31 for every list of bricks,
\* the empty one included: the difference never wraps.
ShiftWithinWord == AutomaticFrameStarted => frame.shift \in 0..31

\* C29 witness: a brick of the deepest level of the tree is among the bricks
\* and the shift amount is 0
ShiftByZero ==
    /\ AutomaticFrameStarted
    /\ volInfo.depth >= 3
    /\ MaxLevel = volInfo.depth - 1
    /\ frame.shift = 0

====
